---- MODULE Spec2Model ----
(***************************************************************************)
(* Model of the Opik demo scripts under deployment/docker-compose:         *)
(*   quality_tracking_example.py  the four custom metrics                  *)
(*                                (ResponseQuality, Relevance,             *)
(*                                Conciseness, Accuracy) and the           *)
(*                                evaluation run that applies them         *)
(*   evaluation_script.py         call_your_model, evaluation_task,        *)
(*                                run_daily_evaluation and the entry point *)
(*   rest_api_demo.py             check_opik_health and main               *)
(*                                                                         *)
(* Python strings are sequences of one-character strings, an optional      *)
(* argument is a tagged record (NoneV or Str(s)), and a float score is an  *)
(* exact fraction n/d in lowest terms with d > 0.                          *)
(***************************************************************************)
EXTENDS Integers, Sequences, FiniteSets, TLC

VARIABLES
    \* --- one metric call (quality_tracking_example.py, classes) ---
    call,        \* name of the metric whose score() ran last, "none" at start
    output,      \* the output argument of that call
    kwarg,       \* its second argument: reference, input or expected_answer
    result,      \* what the call returned or raised
    conc,        \* the Conciseness object: [made, ideal_length]
    hist,        \* (length, result) of the last two score() calls on conc
    \* --- scoring of a batch by the evaluation engine ---
    batch,       \* the items to score
    cursor,      \* number of items scored so far
    scored,      \* per item, the list of metric results
    acc,         \* per metric, the non-null values seen so far
    report,      \* the aggregate report, once computed
    enginePc,    \* "scoring", "aggregated", "printed", "print_raised"
    printed,     \* the metric names the summary has printed a line for
    \* --- evaluation_script.py: evaluation_task / call_your_model ---
    taskPc,      \* position inside evaluation_task
    item,        \* the dataset item handed to evaluation_task
    question,    \* local variable question
    response,    \* the HTTP response received by requests.post
    answer,      \* value returned by call_your_model
    returned,    \* what evaluation_task returned or raised
    \* --- evaluation_script.py: __main__ / run_daily_evaluation ---
    runPc,       \* position inside the script
    dataset,     \* the dataset in Opik: [created, items]
    nextQ,       \* index of the next test question the insert loop takes
    sdkCalls,    \* the SDK calls made so far, each with its outcome
    testResults, \* the records evaluate has collected from evaluation_task
    stdout,      \* the messages printed so far
    exc,         \* the exception being propagated, "" when none
    runResult,   \* what run_daily_evaluation returned
    \* --- rest_api_demo.py: main / check_opik_health ---
    demoPc,      \* position inside main
    health,      \* outcome of the health request
    healthy,     \* what check_opik_health returned
    demoNow,     \* the minute datetime.now() gave for experiment_name
    tracked,     \* the experiments passed to create_experiment_via_api
    demoOut      \* the messages printed so far

metricVars == <<call, output, kwarg, result, conc, hist>>
engineVars == <<batch, cursor, scored, acc, report, enginePc, printed>>
taskVars   == <<taskPc, item, question, response, answer, returned>>
runVars    == <<runPc, dataset, nextQ, sdkCalls, testResults, stdout, exc, runResult>>
demoVars   == <<demoPc, health, healthy, demoNow, tracked, demoOut>>
vars == <<metricVars, engineVars, taskVars, runVars, demoVars>>

----------------------------------------------------------------------------
(* Bounds of the model *)

\* longest free part of an output string
MaxOut == 2
\* longest reference / input / expected_answer string
MaxRef == 3
\* largest number of items in a batch
MaxItems == 2
\* largest small ideal_length a Conciseness object is built with
MaxIdeal == 3

(* Program constants *)

\* ResponseQuality: "if len(output) > 50"
MinCompleteLen == 50
\* ResponseQuality: "output.count(' ') >= 5"
MinSpaces == 5
\* ResponseQuality: "output.count('.') >= 1"
MinPeriods == 1
\* Conciseness.__init__: ideal_length=200
DefaultIdealLength == 200

----------------------------------------------------------------------------
(* Python values *)

Alphabet == {"A", "a", ".", " "}

NoneV == [t |-> "none", s |-> <<>>]
\* a local variable that has not been assigned yet
Unset == [t |-> "unset", s |-> <<>>]
Str(s) == [t |-> "str", s |-> s]
IsStr(v) == v.t = "str"
\* Python truthiness of an optional string: None and "" are falsy
Truthy(v) == IsStr(v) /\ Len(v.s) > 0

StringsUpTo(n) == UNION {[1..k -> Alphabet] : k \in 0..n}
Repeat(c, k) == [i \in 1..k |-> c]

\* --- fractions ---
Abs(x) == IF x < 0 THEN -x ELSE x

RECURSIVE Gcd(_, _)
Gcd(a, b) == IF b = 0 THEN a ELSE Gcd(b, a % b)

\* a score: kind "num" with the fraction n/d, "none" for None,
\* "raise" with the exception's name in err
Num(n, d) ==
    LET s == IF d < 0 THEN -1 ELSE 1
        g == Gcd(Abs(n), Abs(d))
    IN [k |-> "num", n |-> (s * n) \div g, d |-> (s * d) \div g, err |-> ""]
NoneResult == [k |-> "none", n |-> 0, d |-> 1, err |-> ""]
Raised(e) == [k |-> "raise", n |-> 0, d |-> 1, err |-> e]
NoResult == [k |-> "idle", n |-> 0, d |-> 1, err |-> ""]

IsNum(r) == r.k = "num"
RLe(a, b) == a.n * b.d <= b.n * a.d
RLt(a, b) == a.n * b.d < b.n * a.d
RAdd(a, b) == Num(a.n * b.d + b.n * a.d, a.d * b.d)
RSub(a, b) == Num(a.n * b.d - b.n * a.d, a.d * b.d)
RMin(a, b) == IF RLe(a, b) THEN a ELSE b
RMax(a, b) == IF RLe(a, b) THEN b ELSE a
Zero == Num(0, 1)
One == Num(1, 1)
\* the float literal 0.25
Quarter == Num(1, 4)

\* --- str methods ---
\* str.lower(), character by character
LowerChar(c) == IF c = "A" THEN "a" ELSE c
lower(s) == [i \in 1..Len(s) |-> LowerChar(s[i])]

\* str.isupper() of a one-character string
isupper(c) == c = "A"

\* str.isspace() of a one-character string
isspace(c) == c = " "

\* str.count(c) for a one-character c: a left-to-right scan
RECURSIVE count(_, _)
count(s, c) ==
    IF Len(s) = 0 THEN 0
    ELSE (IF Head(s) = c THEN 1 ELSE 0) + count(Tail(s), c)

\* str.split() with no argument: runs of whitespace separate the words and
\* no empty word is produced.  splitFrom scans s with the word being read in w.
RECURSIVE splitFrom(_, _)
splitFrom(s, w) ==
    IF Len(s) = 0 THEN (IF Len(w) = 0 THEN <<>> ELSE <<w>>)
    ELSE IF isspace(Head(s))
         THEN (IF Len(w) = 0 THEN <<>> ELSE <<w>>) \o splitFrom(Tail(s), <<>>)
         ELSE splitFrom(Tail(s), Append(w, Head(s)))

\* str.split(' ') instead of str.split(): every single space separates, so
\* empty words appear
RECURSIVE splitOnEverySpace(_, _)
splitOnEverySpace(s, w) ==
    IF Len(s) = 0 THEN <<w>>
    ELSE IF isspace(Head(s))
         THEN <<w>> \o splitOnEverySpace(Tail(s), <<>>)
         ELSE splitOnEverySpace(Tail(s), Append(w, Head(s)))

split_mut(s) == splitOnEverySpace(s, <<>>)

split(s) == splitFrom(s, <<>>)

\* "needle in hay" for strings
contains(hay, needle) ==
    \E i \in 0..(Len(hay) - Len(needle)) :
        SubSeq(hay, i + 1, i + Len(needle)) = needle

Range(f) == {f[i] : i \in DOMAIN f}

----------------------------------------------------------------------------
(* quality_tracking_example.py: the custom metrics *)

\* ">= 50" instead of "> 50" in the completeness check
ResponseQualityScore_mut(out, reference) ==
    IF ~IsStr(out) THEN Raised("TypeError")
    ELSE
    LET o == out.s
        complete == Len(o) >= MinCompleteLen
        addresses == /\ Truthy(reference)
                     /\ LET words == split(reference.s)
                        IN \E i \in DOMAIN words :
                               contains(lower(o), lower(words[i]))
        coherent == count(o, ".") >= MinPeriods /\ count(o, " ") >= MinSpaces
        capital == Len(o) > 0 /\ isupper(o[1])
        s1 == IF complete THEN RAdd(Zero, Quarter) ELSE Zero
        s2 == IF addresses THEN RAdd(s1, Quarter) ELSE s1
        s3 == IF coherent THEN RAdd(s2, Quarter) ELSE s2
        s4 == IF capital THEN RAdd(s3, Quarter) ELSE s3
    IN s4

\* a missing output is scored 0.0 instead of raising
ResponseQualityScore_mut2(out, reference) ==
    IF ~IsStr(out) THEN Zero
    ELSE
    LET o == out.s
        complete == Len(o) > MinCompleteLen
        addresses == /\ Truthy(reference)
                     /\ LET words == split(reference.s)
                        IN \E i \in DOMAIN words :
                               contains(lower(o), lower(words[i]))
        coherent == count(o, ".") >= MinPeriods /\ count(o, " ") >= MinSpaces
        capital == Len(o) > 0 /\ isupper(o[1])
        s1 == IF complete THEN RAdd(Zero, Quarter) ELSE Zero
        s2 == IF addresses THEN RAdd(s1, Quarter) ELSE s1
        s3 == IF coherent THEN RAdd(s2, Quarter) ELSE s2
        s4 == IF capital THEN RAdd(s3, Quarter) ELSE s3
    IN s4

\* ResponseQuality.score(output, reference)
ResponseQualityScore(out, reference) ==
    IF ~IsStr(out) THEN Raised("TypeError")      \* len(None)
    ELSE
    LET o == out.s
        complete == Len(o) > MinCompleteLen
        addresses == /\ Truthy(reference)
                     /\ LET words == split(reference.s)
                        IN \E i \in DOMAIN words :
                               contains(lower(o), lower(words[i]))
        coherent == count(o, ".") >= MinPeriods /\ count(o, " ") >= MinSpaces
        capital == Len(o) > 0 /\ isupper(o[1])
        s1 == IF complete THEN RAdd(Zero, Quarter) ELSE Zero
        s2 == IF addresses THEN RAdd(s1, Quarter) ELSE s1
        s3 == IF coherent THEN RAdd(s2, Quarter) ELSE s2
        s4 == IF capital THEN RAdd(s3, Quarter) ELSE s3
    IN s4

\* the words of the output are not lowercased before the intersection
RelevanceScore_mut(out, input) ==
    IF ~Truthy(input) THEN Zero
    ELSE IF ~IsStr(out) THEN Raised("AttributeError")
    ELSE
    LET question_words == Range(split(lower(input.s)))
        answer_words == Range(split(out.s))
        common_words == question_words \cap answer_words
        relevance_score ==
            IF question_words # {}
            THEN Num(Cardinality(common_words), Cardinality(question_words))
            ELSE Zero
    IN RMin(relevance_score, One)

\* Relevance.score(output, input)
RelevanceScore(out, input) ==
    IF ~Truthy(input) THEN Zero                       \* if not input
    ELSE IF ~IsStr(out) THEN Raised("AttributeError") \* None.lower()
    ELSE
    LET question_words == Range(split(lower(input.s)))
        answer_words == Range(split(lower(out.s)))
        common_words == question_words \cap answer_words
        relevance_score ==
            IF question_words # {}
            THEN Num(Cardinality(common_words), Cardinality(question_words))
            ELSE Zero
    IN RMin(relevance_score, One)

\* the penalty is not capped at 1.0 and the result not floored at 0.0
ConcisenessScore_mut(ideal_length, out) ==
    IF ~IsStr(out) THEN Raised("TypeError")
    ELSE
    LET length == Len(out.s)
    IN IF length <= ideal_length THEN One
       ELSE LET excess == length - ideal_length
            IN IF ideal_length = 0 THEN Raised("ZeroDivisionError")
               ELSE RSub(One, Num(excess, ideal_length))

\* Conciseness.score(output) on an object whose ideal_length is given
ConcisenessScore(ideal_length, out) ==
    IF ~IsStr(out) THEN Raised("TypeError")           \* len(None)
    ELSE
    LET length == Len(out.s)
    IN IF length <= ideal_length THEN One
       ELSE LET excess == length - ideal_length
            IN IF ideal_length = 0 THEN Raised("ZeroDivisionError")
               ELSE LET penalty == RMin(Num(excess, ideal_length), One)
                    IN RMax(Zero, RSub(One, penalty))

\* number of keywords of the list that occur in output_lower
RECURSIVE matchCount(_, _)
matchCount(keywords, output_lower) ==
    IF Len(keywords) = 0 THEN 0
    ELSE (IF contains(output_lower, Head(keywords)) THEN 1 ELSE 0)
         + matchCount(Tail(keywords), output_lower)

\* the keywords are matched against the output as it is, not lowercased
AccuracyScore_mut(out, expected_answer) ==
    IF ~Truthy(expected_answer) THEN NoneResult
    ELSE IF ~IsStr(out) THEN Raised("AttributeError")
    ELSE
    LET expected_keywords == split(lower(expected_answer.s))
        matches == matchCount(expected_keywords, out.s)
    IN IF Len(expected_keywords) > 0
       THEN Num(matches, Len(expected_keywords))
       ELSE Zero

\* a 0.0 instead of None when there is no ground truth
AccuracyScore_mut2(out, expected_answer) ==
    IF ~Truthy(expected_answer) THEN Zero
    ELSE IF ~IsStr(out) THEN Raised("AttributeError")
    ELSE
    LET expected_keywords == split(lower(expected_answer.s))
        output_lower == lower(out.s)
        matches == matchCount(expected_keywords, output_lower)
    IN IF Len(expected_keywords) > 0
       THEN Num(matches, Len(expected_keywords))
       ELSE Zero

\* the "if expected_keywords" guard dropped: an empty list divides by zero
AccuracyScore_mut3(out, expected_answer) ==
    IF ~Truthy(expected_answer) THEN NoneResult
    ELSE IF ~IsStr(out) THEN Raised("AttributeError")
    ELSE
    LET expected_keywords == split(lower(expected_answer.s))
        output_lower == lower(out.s)
        matches == matchCount(expected_keywords, output_lower)
    IN IF Len(expected_keywords) > 0
       THEN Num(matches, Len(expected_keywords))
       ELSE Raised("ZeroDivisionError")

\* Accuracy.score(output, expected_answer)
AccuracyScore(out, expected_answer) ==
    IF ~Truthy(expected_answer) THEN NoneResult       \* if not expected_answer
    ELSE IF ~IsStr(out) THEN Raised("AttributeError") \* None.lower()
    ELSE
    LET expected_keywords == split(lower(expected_answer.s))
        output_lower == lower(out.s)
        matches == matchCount(expected_keywords, output_lower)
    IN IF Len(expected_keywords) > 0
       THEN Num(matches, Len(expected_keywords))
       ELSE Zero

----------------------------------------------------------------------------
(* Calls of the metrics.  The four metric objects share no state and a      *)
(* score() call of ResponseQuality, Relevance or Accuracy leaves nothing    *)
(* behind, so a run makes one such call, or builds one Conciseness object   *)
(* and scores a series of outputs with it.                                  *)

\* what pads the free part of an output: nothing, spaces around the
\* MinSpaces threshold, and a run that brings the length to the
\* MinCompleteLen threshold
QualityPads ==
    { <<" ", 0>>, <<" ", MinSpaces - 1>>, <<" ", MinSpaces>>,
      <<" ", MinCompleteLen + 1 - MaxOut>>, <<"a", MinCompleteLen + 1 - MaxOut>> }
QualityOutputs ==
    { Str(c \o Repeat(p[1], p[2])) : c \in StringsUpTo(MaxOut), p \in QualityPads }

\* outputs of one or two words
WordOutputs ==
    { Str(c \o w) : c \in StringsUpTo(MaxOut), w \in {<<>>, <<" ", "a">>, <<" ", ".">>} }

\* reference, input, expected_answer: absent or a short string
OptStrings == {NoneV} \cup { Str(s) : s \in StringsUpTo(MaxRef) }

\* ideal_length values a Conciseness is built with, the default among them
IdealLengths == (-1 .. MaxIdeal) \cup {DefaultIdealLength}
\* output lengths around ideal_length and twice ideal_length
ConcLengths ==
    (0 .. 2 * MaxIdeal + 1)
    \cup (DefaultIdealLength - 1 .. DefaultIdealLength + 1)
    \cup (2 * DefaultIdealLength - 1 .. 2 * DefaultIdealLength + 1)

NotMade == [made |-> FALSE, ideal_length |-> 0]

MetricIdle ==
    /\ call = "none"
    /\ output = NoneV
    /\ kwarg = NoneV
    /\ result = NoResult
    /\ conc = NotMade
    /\ hist = <<>>

\* ResponseQuality(...).score(output=o, reference=r)
ScoreResponseQuality ==
    /\ ~conc.made
    /\ call = "none"
    /\ \E o \in QualityOutputs, r \in OptStrings :
        /\ call' = "response_quality"
        /\ output' = o
        /\ kwarg' = r
        /\ result' = ResponseQualityScore(o, r)
    /\ UNCHANGED <<conc, hist>>

\* Relevance(...).score(output=o, input=i)
ScoreRelevance ==
    /\ ~conc.made
    /\ call = "none"
    /\ \E o \in WordOutputs, i \in OptStrings :
        /\ call' = "relevance"
        /\ output' = o
        /\ kwarg' = i
        /\ result' = RelevanceScore(o, i)
    /\ UNCHANGED <<conc, hist>>

\* Accuracy(...).score(output=o, expected_answer=e)
ScoreAccuracy ==
    /\ ~conc.made
    /\ call = "none"
    /\ \E o \in WordOutputs, e \in OptStrings :
        /\ call' = "accuracy"
        /\ output' = o
        /\ kwarg' = e
        /\ result' = AccuracyScore(o, e)
    /\ UNCHANGED <<conc, hist>>

\* Conciseness.__init__(name, ideal_length): stores ideal_length as given
ConcisenessInit(ideal_length) ==
    [made |-> TRUE, ideal_length |-> ideal_length]

\* Conciseness(ideal_length=L)
NewConciseness ==
    /\ ~conc.made
    /\ call = "none"
    /\ \E L \in IdealLengths : conc' = ConcisenessInit(L)
    /\ hist' = <<>>
    /\ UNCHANGED <<call, output, kwarg, result>>

\* the last two entries of a log
LastTwo(log) == IF Len(log) <= 2 THEN log ELSE SubSeq(log, Len(log) - 1, Len(log))

\* conc.score(output=o), o a string of n characters
ScoreConciseness ==
    /\ conc.made
    /\ \E n \in ConcLengths :
        LET o == Str(Repeat("a", n))
            r == ConcisenessScore(conc.ideal_length, o)
        IN /\ call' = "conciseness"
           /\ output' = o
           /\ kwarg' = NoneV
           /\ result' = r
           /\ hist' = LastTwo(Append(hist, [len |-> n, res |-> r]))
    /\ UNCHANGED conc

----------------------------------------------------------------------------
(* The evaluation engine and evaluation_task are idle in the metric runs *)

EngineIdle ==
    /\ batch = <<>>
    /\ cursor = 0
    /\ scored = <<>>
    /\ acc = <<>>
    /\ report = <<>>
    /\ enginePc = "idle"
    /\ printed = {}

TaskIdle ==
    /\ taskPc = "idle"
    /\ item = <<>>
    /\ question = Unset
    /\ response = <<>>
    /\ answer = Unset
    /\ returned = <<>>

NoDataset == [created |-> FALSE, items |-> <<>>]

RunIdle ==
    /\ runPc = "idle"
    /\ dataset = NoDataset
    /\ nextQ = 0
    /\ sdkCalls = <<>>
    /\ testResults = <<>>
    /\ stdout = <<>>
    /\ exc = ""
    /\ runResult = <<>>

NoHealth == [kind |-> "none", status |-> 0, err |-> ""]

DemoIdle ==
    /\ demoPc = "idle"
    /\ health = NoHealth
    /\ healthy = "unset"
    /\ demoNow = 0
    /\ tracked = <<>>
    /\ demoOut = <<>>

Init == MetricIdle /\ EngineIdle /\ TaskIdle /\ RunIdle /\ DemoIdle

Next ==
    \/ ScoreResponseQuality /\ UNCHANGED <<engineVars, taskVars, runVars, demoVars>>
    \/ ScoreRelevance /\ UNCHANGED <<engineVars, taskVars, runVars, demoVars>>
    \/ ScoreAccuracy /\ UNCHANGED <<engineVars, taskVars, runVars, demoVars>>
    \/ NewConciseness /\ UNCHANGED <<engineVars, taskVars, runVars, demoVars>>
    \/ ScoreConciseness /\ UNCHANGED <<engineVars, taskVars, runVars, demoVars>>

Spec == Init /\ [][Next]_vars

----------------------------------------------------------------------------
(* Vocabulary of the claims about the metrics, stated on the strings       *)
(* themselves rather than through the str methods above                    *)

\* positions at which a word (a maximal run of non-space characters) starts
WordStarts(s) ==
    { i \in 1..Len(s) : s[i] # " " /\ (i = 1 \/ s[i - 1] = " ") }
\* the word that starts at position i
WordAt(s, i) ==
    LET j == CHOOSE e \in i..Len(s) :
                /\ \A m \in i..e : s[m] # " "
                /\ (e = Len(s) \/ s[e + 1] = " ")
    IN SubSeq(s, i, j)
WordSet(s) == { WordAt(s, i) : i \in WordStarts(s) }
\* s and u are equal up to the case of their letters
SameIgnoringCase(s, u) ==
    /\ Len(s) = Len(u)
    /\ \A i \in 1..Len(s) : s[i] = u[i] \/ {s[i], u[i]} = {"A", "a"}
\* w occurs in s, case-insensitively
OccursIn(w, s) ==
    \E i \in 1..(Len(s) - Len(w) + 1) :
        SameIgnoringCase(SubSeq(s, i, i + Len(w) - 1), w)
LowerWords(s) == { lower(w) : w \in WordSet(s) }
Positions(s, c) == { i \in 1..Len(s) : s[i] = c }
Bit(b) == IF b THEN 1 ELSE 0
InUnit(r) == IsNum(r) /\ RLe(Zero, r) /\ RLe(r, One)

\* the number of ResponseQuality's four checks that output o and reference r pass
SatisfiedChecks(o, r) ==
    Bit(Len(o) > 50)
    + Bit(IsStr(r) /\ \E w \in WordSet(r.s) : OccursIn(w, o))
    + Bit(Cardinality(Positions(o, ".")) >= 1 /\ Cardinality(Positions(o, " ")) >= 5)
    + Bit(Len(o) >= 1 /\ o[1] = "A")

\* C1: for every output string and every reference, ResponseQuality.score
\* returns 0.25 times the number of satisfied checks, hence one of
\* 0.0, 0.25, 0.5, 0.75, 1.0 and a value in [0,1].
C1_ResponseQualityCountsChecks ==
    call = "response_quality" =>
        /\ IsNum(result)
        /\ 4 * result.n = SatisfiedChecks(output.s, kwarg) * result.d
        /\ result \in { Num(q, 4) : q \in 0..4 }
        /\ InUnit(result)

\* a call in which all four checks pass, with a reference
C1_Witness ==
    /\ call = "response_quality"
    /\ Truthy(kwarg)
    /\ SatisfiedChecks(output.s, kwarg) = 4
    /\ result = One

\* C7: for an empty output string ResponseQuality.score returns 0.0 without
\* raising, whatever the reference (absent, empty or any text).
C7_EmptyOutputScoresZero ==
    (call = "response_quality" /\ output = Str(<<>>)) => result = Zero

\* the empty output scored against a reference that has text
C7_Witness ==
    /\ call = "response_quality"
    /\ output = Str(<<>>)
    /\ Truthy(kwarg)
    /\ result = Zero

\* tokens of expected_answer e, and those found in output o, with multiplicity
TokenCount(e) == Cardinality(WordStarts(e))
FoundCount(e, o) ==
    Cardinality({ i \in WordStarts(e) : OccursIn(WordAt(e, i), o) })

\* C2: Accuracy.score returns None when expected_answer is None or "", and
\* otherwise a value in [0,1] that is the fraction of the whitespace-split
\* expected_answer tokens found (case-insensitively) in the output.
C2_AccuracyIsTokenFraction ==
    call = "accuracy" =>
        IF ~Truthy(kwarg) THEN result = NoneResult
        ELSE /\ InUnit(result)
             /\ result.n * TokenCount(kwarg.s) = FoundCount(kwarg.s, output.s) * result.d

\* a call that finds some but not all of the expected tokens
C2_Witness ==
    /\ call = "accuracy"
    /\ Truthy(kwarg)
    /\ IsNum(result)
    /\ RLt(Zero, result)
    /\ RLt(result, One)

\* C3 as claimed: an empty token list always yields None, never a number.
C3_EmptyTokensGiveNone ==
    (call = "accuracy" /\ (~IsStr(kwarg) \/ TokenCount(kwarg.s) = 0)) =>
        result = NoneResult

\* C3 amended: with an empty token list Accuracy.score returns None when
\* expected_answer is None or "", and the number 0.0 when expected_answer is
\* non-empty but all whitespace; no division by zero occurs.
C3_EmptyTokensGiveNoneOrZero ==
    (call = "accuracy" /\ (~IsStr(kwarg) \/ TokenCount(kwarg.s) = 0)) =>
        /\ result.k # "raise"
        /\ ~Truthy(kwarg) => result = NoneResult
        /\ Truthy(kwarg) => result = Zero

\* a whitespace-only expected_answer scored as 0.0
C3_Witness ==
    /\ call = "accuracy"
    /\ Truthy(kwarg)
    /\ TokenCount(kwarg.s) = 0
    /\ result = Zero

\* C4 as claimed: 0.0 for an absent or empty input, 1.0 for every non-empty
\* input whose lowercase words all are lowercase words of the output, and a
\* value in [0,1] always.
C4_SupersetScoresOne ==
    call = "relevance" =>
        /\ InUnit(result)
        /\ ~Truthy(kwarg) => result = Zero
        /\ (Truthy(kwarg) /\ LowerWords(kwarg.s) \subseteq LowerWords(output.s))
               => result = One

\* C4 amended: 0.0 for an input that is absent, empty or without any word;
\* 1.0 for every input with at least one word whose lowercase words all are
\* lowercase words of the output; a value in [0,1] always.
C4_SupersetOfSomeWordsScoresOne ==
    call = "relevance" =>
        /\ InUnit(result)
        /\ (~IsStr(kwarg) \/ WordSet(kwarg.s) = {}) => result = Zero
        /\ (IsStr(kwarg) /\ WordSet(kwarg.s) # {}
              /\ LowerWords(kwarg.s) \subseteq LowerWords(output.s))
               => result = One

\* an input of two different words, both among the output's words
C4_Witness ==
    /\ call = "relevance"
    /\ IsStr(kwarg)
    /\ Cardinality(LowerWords(kwarg.s)) = 2
    /\ LowerWords(kwarg.s) \subseteq LowerWords(output.s)
    /\ result = One

\* the score conc gave an output of n characters, per the log
Decreasing(a, b) ==
    (conc.ideal_length < a.len /\ a.len < b.len) =>
        (RLt(b.res, a.res) \/ a.res = Zero)

\* C5: with ideal_length L > 0 the Conciseness score is 1.0 up to length L,
\* strictly decreases with the length beyond L until it is 0.0, is never
\* below 0.0, and is 0.0 from length 2*L on.
C5_ConcisenessDecreasesToFloor ==
    (conc.made /\ conc.ideal_length > 0) =>
        /\ \A i \in DOMAIN hist :
            /\ IsNum(hist[i].res)
            /\ hist[i].len <= conc.ideal_length => hist[i].res = One
            /\ RLe(Zero, hist[i].res)
            /\ hist[i].len >= 2 * conc.ideal_length => hist[i].res = Zero
        /\ \A i, j \in DOMAIN hist : Decreasing(hist[i], hist[j])

\* two outputs longer than L scored in turn, the longer one strictly lower
\* and still above the floor
C5_Witness ==
    /\ conc.made
    /\ conc.ideal_length > 0
    /\ Len(hist) = 2
    /\ conc.ideal_length < hist[1].len
    /\ hist[1].len < hist[2].len
    /\ RLt(hist[2].res, hist[1].res)
    /\ RLt(Zero, hist[2].res)

\* C6: building a Conciseness with ideal_length <= 0 fails with a
\* configuration error, so no Conciseness object exists, and no score call
\* runs, with a non-positive ideal_length; no score call divides by zero.
C6_NonPositiveIdealLengthRejected ==
    /\ conc.made => conc.ideal_length > 0
    /\ call = "conciseness" =>
        (conc.ideal_length > 0 /\ result.err # "ZeroDivisionError")

----------------------------------------------------------------------------
(* The evaluation run of run_quality_evaluation_with_trends: the metrics of *)
(* quality_metrics are applied to every item that eval_task produced, the   *)
(* per-metric aggregate is computed, and the summary is printed.  The       *)
(* engine that applies the metrics (evaluate) is not in these files; it is  *)
(* modelled as the specification describes score and scoreBatch.            *)

\* quality_metrics: the names the metrics are registered under, in order
QualityMetrics ==
    << "overall_quality", "relevance_score", "conciseness_score",
       "accuracy_score", "similarity_to_expected" >>
MetricNames == Range(QualityMetrics)

\* the items a batch is made of, shaped as eval_task returns them
\* (reference and expected_answer both are the item's expected_answer);
\* lev is what the SDK's LevenshteinRatio makes of the item
ItemOutputs == { NoneV, Str(<<>>), Str(<<"A", " ", "a">>) }
ItemInputs == { Str(<<>>), Str(<<"a">>) }
ItemExpected == { NoneV, Str(<<" ">>), Str(<<"a", " ", ".">>) }
LevOutcomes == { Num(1, 2), Raised("ValueError") }
Items ==
    { [input |-> i, output |-> o, expected_answer |-> e, reference |-> e, lev |-> l] :
        i \in ItemInputs, o \in ItemOutputs, e \in ItemExpected, l \in LevOutcomes }
Batches == UNION { [1..n -> Items] : n \in 0..MaxItems }

\* metric.score(**item) for the metric registered under name
ApplyMetric(name, it) ==
    CASE name = "overall_quality" -> ResponseQualityScore(it.output, it.reference)
      [] name = "relevance_score" -> RelevanceScore(it.output, it.input)
      [] name = "conciseness_score" ->
            ConcisenessScore(ConcisenessInit(DefaultIdealLength).ideal_length, it.output)
      [] name = "accuracy_score" -> AccuracyScore(it.output, it.expected_answer)
      [] name = "similarity_to_expected" -> it.lev

MetricResult(name, value, reason) ==
    [metricName |-> name, value |-> value, reason |-> reason]

\* score(item): every registered metric in registration order, a fault
\* turned into a result with value None and the fault as reason
EngineScore(it) ==
    [j \in DOMAIN QualityMetrics |->
        LET r == ApplyMetric(QualityMetrics[j], it)
        IN IF r.k = "raise"
           THEN MetricResult(QualityMetrics[j], NoneResult, r.err)
           ELSE MetricResult(QualityMetrics[j], r, "")]

\* the accumulator with the non-null values of one item's results added
Accumulate(a, results) ==
    [m \in DOMAIN a |->
        LET hits == { j \in DOMAIN results :
                        results[j].metricName = m /\ IsNum(results[j].value) }
        IN IF hits = {} THEN a[m]
           ELSE LET j == CHOOSE h \in hits : TRUE
                IN [sum |-> RAdd(a[m].sum, results[j].value),
                    count |-> a[m].count + 1]]

\* the report of scoreBatch: per metric the mean of its non-null values,
\* a metric without any left out
EngineAggregate(a) ==
    [m \in { x \in DOMAIN a : a[x].count > 0 } |->
        Num(a[m].sum.n, a[m].sum.d * a[m].count)]

EmptyAcc == [m \in MetricNames |-> [sum |-> Zero, count |-> 0]]

InitEngine ==
    /\ MetricIdle
    /\ TaskIdle
    /\ RunIdle
    /\ DemoIdle
    /\ batch \in Batches
    /\ cursor = 0
    /\ scored = <<>>
    /\ acc = EmptyAcc
    /\ report = <<>>
    /\ enginePc = "scoring"
    /\ printed = {}

\* scoreBatch, one item: score it and fold its non-null values
ScoreItem ==
    /\ enginePc = "scoring"
    /\ cursor < Len(batch)
    /\ LET results == EngineScore(batch[cursor + 1])
       IN /\ scored' = Append(scored, results)
          /\ acc' = Accumulate(acc, results)
    /\ cursor' = cursor + 1
    /\ UNCHANGED <<batch, report, enginePc, printed>>

\* scoreBatch, after the last item: the report
Aggregate ==
    /\ enginePc = "scoring"
    /\ cursor = Len(batch)
    /\ report' = EngineAggregate(acc)
    /\ enginePc' = "aggregated"
    /\ UNCHANGED <<batch, cursor, scored, acc, printed>>

\* the summary loop: print(f"  {metric_name}: {score:.3f}") for each entry
\* of results.aggregate_scores, when results has that attribute; formatting
\* a score that is no number raises TypeError
PrintSummary ==
    /\ enginePc = "aggregated"
    /\ \E hasAggregateScores \in BOOLEAN :
        IF ~hasAggregateScores
        THEN enginePc' = "printed" /\ printed' = {}
        ELSE IF \A m \in DOMAIN report : IsNum(report[m])
             THEN enginePc' = "printed" /\ printed' = DOMAIN report
             ELSE enginePc' = "print_raised" /\ printed' = {}
    /\ UNCHANGED <<batch, cursor, scored, acc, report>>

NextEngine ==
    \/ ScoreItem /\ UNCHANGED <<metricVars, taskVars, runVars, demoVars>>
    \/ Aggregate /\ UNCHANGED <<metricVars, taskVars, runVars, demoVars>>
    \/ PrintSummary /\ UNCHANGED <<metricVars, taskVars, runVars, demoVars>>

SpecEngine == InitEngine /\ [][NextEngine]_vars

----------------------------------------------------------------------------
(* Claims about the evaluation run *)

\* the metrics in the order quality_metrics lists them
RegistrationOrder ==
    << "overall_quality", "relevance_score", "conciseness_score",
       "accuracy_score", "similarity_to_expected" >>
IsFaultResult(r) == r.value = NoneResult /\ r.reason # ""

\* C8: a metric that raises while scoring an item (output None makes
\* ResponseQuality and Conciseness raise) yields a result with value None and
\* a reason; every other registered metric is still applied to the item, in
\* registration order; the batch is scored to its end.
C8_FaultsBecomeNullResults ==
    /\ Len(scored) = cursor
    /\ enginePc \in {"scoring", "aggregated", "printed"}
    /\ enginePc # "scoring" => cursor = Len(batch)
    /\ \A i \in DOMAIN scored :
        LET it == batch[i]
            res == scored[i]
        IN /\ Len(res) = Len(RegistrationOrder)
           /\ \A j \in DOMAIN res :
                /\ res[j].metricName = RegistrationOrder[j]
                /\ res[j].value.k \in {"num", "none"}
                /\ res[j].reason # "" => res[j].value = NoneResult
           /\ ~IsStr(it.output) =>
                /\ IsFaultResult(res[1])
                /\ IsFaultResult(res[3])
                /\ ~Truthy(it.input) => (res[2].value = Zero /\ res[2].reason = "")
                /\ ~Truthy(it.expected_answer) =>
                        (res[4].value = NoneResult /\ res[4].reason = "")
                /\ it.lev.k = "num" => res[5].value = it.lev
           /\ it.lev.k = "raise" =>
                /\ IsFaultResult(res[5])
                /\ IsStr(it.output) =>
                        (IsNum(res[1].value) /\ IsNum(res[2].value) /\ IsNum(res[3].value))

\* a batch scored to its end in which ResponseQuality raised on an item
\* without output and later metrics still gave that item a number
C8_Witness ==
    /\ enginePc = "printed"
    /\ \E i \in DOMAIN scored :
        /\ batch[i].output = NoneV
        /\ IsFaultResult(scored[i][1])
        /\ scored[i][2].value = Zero
        /\ IsNum(scored[i][5].value)

\* the items on which metric m gave a number
ScoredItems(m) ==
    { i \in DOMAIN scored :
        \E j \in DOMAIN scored[i] :
            scored[i][j].metricName = m /\ IsNum(scored[i][j].value) }
ValueOf(m, i) ==
    (CHOOSE r \in Range(scored[i]) : r.metricName = m).value
RECURSIVE SumOf(_, _)
SumOf(m, S) ==
    IF S = {} THEN Zero
    ELSE LET i == CHOOSE x \in S : TRUE
         IN RAdd(ValueOf(m, i), SumOf(m, S \ {i}))

\* C9: after a batch is scored the report holds, for each metric, the mean
\* of the non-null values the metric returned; a metric that returned None
\* on every item (Accuracy when no item has an expected answer) has no
\* entry; every entry the summary formats is a number.
C9_AggregateIsMeanOfNonNull ==
    enginePc # "scoring" =>
        /\ enginePc # "print_raised"
        /\ DOMAIN report \subseteq Range(RegistrationOrder)
        /\ \A m \in Range(RegistrationOrder) :
            LET S == ScoredItems(m)
            IN IF S = {} THEN m \notin DOMAIN report
               ELSE /\ m \in DOMAIN report
                    /\ IsNum(report[m])
                    /\ report[m].n * SumOf(m, S).d * Cardinality(S)
                         = SumOf(m, S).n * report[m].d
        /\ (\A i \in DOMAIN batch : ~Truthy(batch[i].expected_answer))
              => "accuracy_score" \notin DOMAIN report
        /\ printed \subseteq DOMAIN report
        /\ \A m \in printed : IsNum(report[m])

\* a printed report of two items, none with an expected answer, the first
\* without output: no accuracy entry, and the quality entry is the second
\* item's score alone
C9_Witness ==
    /\ enginePc = "printed"
    /\ Len(batch) = 2
    /\ \A i \in DOMAIN batch : ~Truthy(batch[i].expected_answer)
    /\ batch[1].output = NoneV
    /\ IsStr(batch[2].output)
    /\ "accuracy_score" \notin DOMAIN report
    /\ "overall_quality" \in DOMAIN report
    /\ report["overall_quality"] = scored[2][1].value
    /\ printed = DOMAIN report

----------------------------------------------------------------------------
(* evaluation_script.py: evaluation_task and call_your_model *)

\* dict.get(key): the value, or None when the key is missing
Get(d, key) == IF key \in DOMAIN d THEN d[key] ELSE NoneV

\* dataset items: a dict that may lack any of its keys; expected_answer may
\* also be present with the value None
DatasetItems ==
    { [key \in K |-> v[key]] :
        K \in SUBSET {"question", "expected_answer", "reference"},
        v \in [ question : { Str(<<"a">>), Str(<<"A", " ", "a">>) },
                expected_answer : { NoneV, Str(<<"a">>) },
                reference : { Str(<<".">>) } ] }

\* what requests.post gives back: it raises (no connection), or a response
\* with a status code and a body.  The body is no JSON, JSON without
\* "choices", JSON with an empty "choices", or JSON with
\* choices[0].message.content
StatusCodes == { 200, 201, 204, 300, 304, 400, 401, 404, 500, 503 }
Contents == { NoneV, Str(<<>>), Str(<<"A", ".">>) }
Bodies ==
    { [shape |-> sh, content |-> NoneV] : sh \in {"not_json", "no_choices", "empty_choices"} }
    \cup { [shape |-> "content", content |-> c] : c \in Contents }
NoBody == [shape |-> "not_json", content |-> NoneV]
Responses ==
    { [kind |-> "error", status |-> 0, body |-> NoBody] }
    \cup { [kind |-> "http", status |-> st, body |-> b] : st \in StatusCodes, b \in Bodies }
NoResponse == [kind |-> "none", status |-> 0, body |-> NoBody]

NotReturned == [kind |-> "none", rec |-> <<>>, err |-> ""]
Raise(e) == [kind |-> "raise", rec |-> <<>>, err |-> e]
Return(r) == [kind |-> "record", rec |-> r, err |-> ""]

\* only server errors raise
RaisesForStatus_mut(status) == 500 <= status /\ status < 600

\* response.raise_for_status(): HTTPError for a 4xx or 5xx status code
RaisesForStatus(status) == 400 <= status /\ status < 600

\* response.json()["choices"][0]["message"]["content"]: the exception the
\* expression raises on this body, "" when it has a value
ContentError(body) ==
    CASE body.shape = "not_json" -> "JSONDecodeError"
      [] body.shape = "no_choices" -> "KeyError"
      [] body.shape = "empty_choices" -> "IndexError"
      [] body.shape = "content" -> ""

\* the dict evaluation_task returns
TaskRecord(dataset_item, q, a) ==
    [ question |-> q,
      output |-> a,
      expected_answer |-> Get(dataset_item, "expected_answer"),
      reference |-> Get(dataset_item, "reference") ]

InitTask ==
    /\ MetricIdle
    /\ EngineIdle
    /\ RunIdle
    /\ DemoIdle
    /\ taskPc = "start"
    /\ item \in DatasetItems
    /\ question = Unset
    /\ response = NoResponse
    /\ answer = Unset
    /\ returned = NotReturned

\* question = dataset_item["question"]
ReadQuestion ==
    /\ taskPc = "start"
    /\ IF "question" \in DOMAIN item
       THEN /\ question' = item["question"]
            /\ taskPc' = "post"
            /\ UNCHANGED returned
       ELSE /\ returned' = Raise("KeyError")
            /\ taskPc' = "raised"
            /\ UNCHANGED question
    /\ UNCHANGED <<item, response, answer>>

\* call_your_model: response = requests.post(MODEL_URL, ...)
Post ==
    /\ taskPc = "post"
    /\ \E r \in Responses :
        /\ response' = r
        /\ IF r.kind = "error"
           THEN returned' = Raise("ConnectionError") /\ taskPc' = "raised"
           ELSE taskPc' = "status" /\ UNCHANGED returned
    /\ UNCHANGED <<item, question, answer>>

\* call_your_model: response.raise_for_status()
RaiseForStatus ==
    /\ taskPc = "status"
    /\ IF RaisesForStatus(response.status)
       THEN returned' = Raise("HTTPError") /\ taskPc' = "raised"
       ELSE taskPc' = "json" /\ UNCHANGED returned
    /\ UNCHANGED <<item, question, response, answer>>

\* call_your_model: return response.json()["choices"][0]["message"]["content"]
ReturnContent ==
    /\ taskPc = "json"
    /\ IF ContentError(response.body) # ""
       THEN /\ returned' = Raise(ContentError(response.body))
            /\ taskPc' = "raised"
            /\ UNCHANGED answer
       ELSE /\ answer' = response.body.content
            /\ taskPc' = "return"
            /\ UNCHANGED returned
    /\ UNCHANGED <<item, question, response>>

\* evaluation_task: return {...}
ReturnRecord ==
    /\ taskPc = "return"
    /\ returned' = Return(TaskRecord(item, question, answer))
    /\ taskPc' = "done"
    /\ UNCHANGED <<item, question, response, answer>>

NextTask ==
    \/ ReadQuestion /\ UNCHANGED <<metricVars, engineVars, runVars, demoVars>>
    \/ Post /\ UNCHANGED <<metricVars, engineVars, runVars, demoVars>>
    \/ RaiseForStatus /\ UNCHANGED <<metricVars, engineVars, runVars, demoVars>>
    \/ ReturnContent /\ UNCHANGED <<metricVars, engineVars, runVars, demoVars>>
    \/ ReturnRecord /\ UNCHANGED <<metricVars, engineVars, runVars, demoVars>>

SpecTask == InitTask /\ [][NextTask]_vars

----------------------------------------------------------------------------
(* Claims about evaluation_task *)

\* call_your_model has returned an answer
AnswerReturned == taskPc \in {"return", "done"}
\* the record of the claim: the item's fields, None where the item lacks them
ClaimedRecord ==
    [ question |-> item["question"],
      output |-> response.body.content,
      expected_answer |->
          IF "expected_answer" \in DOMAIN item THEN item["expected_answer"] ELSE NoneV,
      reference |->
          IF "reference" \in DOMAIN item THEN item["reference"] ELSE NoneV ]
\* the end of evaluation_task: one record, or an exception and no record
RecordOrRaise ==
    /\ AnswerReturned => answer = response.body.content
    /\ taskPc = "done" => returned = Return(ClaimedRecord)
    /\ taskPc = "raised" => (returned.kind = "raise" /\ returned.rec = <<>>)
    /\ taskPc \notin {"done", "raised"} => returned = NotReturned

\* C10 as claimed: call_your_model raises on every non-2xx response and
\* returns no answer then; on a 2xx response it returns the body's
\* choices[0].message.content; evaluation_task returns the record made of
\* that answer and the item's fields, or raises and returns no record.
C10_RaisesOnNon2xx ==
    /\ (response.kind = "http" /\ ~(200 <= response.status /\ response.status <= 299))
          => ~AnswerReturned
    /\ RecordOrRaise

\* C10 amended: call_your_model raises on every 4xx and 5xx response and
\* returns no answer then; on every other response it returns the body's
\* choices[0].message.content when the body has it and raises otherwise;
\* evaluation_task returns the record made of that answer and the item's
\* fields, or raises and returns no record.
C10_RaisesOn4xx5xx ==
    /\ (response.kind = "http" /\ 400 <= response.status /\ response.status <= 599)
          => (taskPc \in {"status", "raised"} /\ answer = Unset)
    /\ (response.kind = "http" /\ response.status < 400 /\ taskPc \in {"return", "done", "raised"})
          => (taskPc = "raised" <=> response.body.shape # "content")
    /\ RecordOrRaise

\* a 404 response made call_your_model raise HTTPError: no answer, no record
C10_Witness ==
    /\ taskPc = "raised"
    /\ response.kind = "http"
    /\ response.status = 404
    /\ response.body.shape = "content"
    /\ returned = Raise("HTTPError")
    /\ answer = Unset

(***************************************************************************)
(* evaluation_script.py: run_daily_evaluation and the entry point.         *)
(*                                                                         *)
(* The SDK calls (create_dataset, insert, evaluate) either complete or     *)
(* raise.  evaluate applies evaluation_task to every item of the dataset,  *)
(* so the task actions above run inside it; a fault of the task leaves     *)
(* evaluate as an exception.                                               *)
(***************************************************************************)

\* test_questions: three items, in this order.  The texts are shortened to
\* one letter: "F" the question about France with answer "P" (Paris), "M"
\* the question about machine learning with no expected answer, "2" the
\* sum with answer "4"
TestQuestions ==
    << [question |-> Str(<<"F">>), expected_answer |-> Str(<<"P">>)],
       [question |-> Str(<<"M">>), expected_answer |-> NoneV],
       [question |-> Str(<<"2">>), expected_answer |-> Str(<<"4">>)] >>

SdkCall(op, arg, outcome) == [op |-> op, arg |-> arg, outcome |-> outcome]

SetOutcome(calls, outcome) ==
    [calls EXCEPT ![Len(calls)] = SdkCall(@.op, @.arg, outcome)]

InitRun ==
    /\ MetricIdle
    /\ EngineIdle
    /\ TaskIdle
    /\ DemoIdle
    /\ runPc = "main"
    /\ dataset = NoDataset
    /\ nextQ = 0
    /\ sdkCalls = <<>>
    /\ testResults = <<>>
    /\ stdout = <<>>
    /\ exc = ""
    /\ runResult = NotReturned

\* try: results = run_daily_evaluation()
\*   print(f"Starting evaluation run at {datetime.now()}")
StartRun ==
    /\ runPc = "main"
    /\ stdout' = Append(stdout, "starting")
    /\ runPc' = "create_dataset"
    /\ UNCHANGED <<dataset, nextQ, sdkCalls, testResults, exc, runResult>>

\* dataset = client.create_dataset(name=..., description=...)
CreateDataset ==
    /\ runPc = "create_dataset"
    /\ \E ok \in BOOLEAN :
        IF ok
        THEN /\ dataset' = [created |-> TRUE, items |-> <<>>]
             /\ sdkCalls' = Append(sdkCalls, SdkCall("create_dataset", <<>>, "ok"))
             /\ nextQ' = 1
             /\ runPc' = "insert"
             /\ UNCHANGED exc
        ELSE /\ sdkCalls' = Append(sdkCalls, SdkCall("create_dataset", <<>>, "raised"))
             /\ exc' = "ApiError"
             /\ runPc' = "except"
             /\ UNCHANGED <<dataset, nextQ>>
    /\ UNCHANGED <<testResults, stdout, runResult>>

InsertItem_mut ==
    /\ runPc = "insert"
    /\ nextQ <= Len(TestQuestions)
    /\ \E ok \in BOOLEAN :
        IF ok
        THEN /\ dataset' = [dataset EXCEPT !.items = Append(@, TestQuestions[nextQ])]
             /\ sdkCalls' = Append(sdkCalls, SdkCall("insert", <<TestQuestions[nextQ]>>, "ok"))
        ELSE /\ sdkCalls' = Append(sdkCalls, SdkCall("insert", <<TestQuestions[nextQ]>>, "raised"))
             /\ UNCHANGED dataset
    /\ nextQ' = nextQ + 1
    /\ UNCHANGED <<runPc, exc, testResults, stdout, runResult>>

\* for item in test_questions: dataset.insert([item])
InsertItem ==
    /\ runPc = "insert"
    /\ nextQ <= Len(TestQuestions)
    /\ \E ok \in BOOLEAN :
        IF ok
        THEN /\ dataset' = [dataset EXCEPT !.items = Append(@, TestQuestions[nextQ])]
             /\ sdkCalls' = Append(sdkCalls, SdkCall("insert", <<TestQuestions[nextQ]>>, "ok"))
             /\ nextQ' = nextQ + 1
             /\ UNCHANGED <<runPc, exc>>
        ELSE /\ sdkCalls' = Append(sdkCalls, SdkCall("insert", <<TestQuestions[nextQ]>>, "raised"))
             /\ exc' = "ApiError"
             /\ runPc' = "except"
             /\ UNCHANGED <<dataset, nextQ>>
    /\ UNCHANGED <<testResults, stdout, runResult>>

\* results = evaluate(..., dataset=dataset, task=evaluation_task, ...),
\* reached when the insert loop has run out of test questions
EvaluateInvoke ==
    /\ runPc = "insert"
    /\ nextQ > Len(TestQuestions)
    /\ \E ok \in BOOLEAN :
        IF ok
        THEN /\ sdkCalls' = Append(sdkCalls, SdkCall("evaluate", <<>>, "running"))
             /\ runPc' = "evaluate"
             /\ UNCHANGED exc
        ELSE /\ sdkCalls' = Append(sdkCalls, SdkCall("evaluate", <<>>, "raised"))
             /\ exc' = "ApiError"
             /\ runPc' = "except"
    /\ UNCHANGED <<dataset, nextQ, testResults, stdout, runResult>>

\* evaluate: call the task on the next item of the dataset
EvaluateNextItem ==
    /\ runPc = "evaluate"
    /\ taskPc = "idle"
    /\ Len(testResults) < Len(dataset.items)
    /\ taskPc' = "start"
    /\ item' = dataset.items[Len(testResults) + 1]
    /\ question' = Unset
    /\ response' = NoResponse
    /\ answer' = Unset
    /\ returned' = NotReturned
    /\ UNCHANGED runVars

\* evaluate: the task returned its record
EvaluateTaskDone ==
    /\ runPc = "evaluate"
    /\ taskPc = "done"
    /\ testResults' = Append(testResults, returned.rec)
    /\ taskPc' = "idle"
    /\ item' = <<>>
    /\ question' = Unset
    /\ response' = <<>>
    /\ answer' = Unset
    /\ returned' = <<>>
    /\ UNCHANGED <<runPc, dataset, nextQ, sdkCalls, stdout, exc, runResult>>

\* evaluate: the task raised, and the exception leaves evaluate
EvaluateTaskRaised ==
    /\ runPc = "evaluate"
    /\ taskPc = "raised"
    /\ exc' = returned.err
    /\ sdkCalls' = SetOutcome(sdkCalls, "raised")
    /\ runPc' = "except"
    /\ taskPc' = "idle"
    /\ item' = <<>>
    /\ question' = Unset
    /\ response' = <<>>
    /\ answer' = Unset
    /\ returned' = <<>>
    /\ UNCHANGED <<dataset, nextQ, testResults, stdout, runResult>>

\* evaluate: every item has its record, evaluate returns
EvaluateReturn ==
    /\ runPc = "evaluate"
    /\ taskPc = "idle"
    /\ Len(testResults) = Len(dataset.items)
    /\ sdkCalls' = SetOutcome(sdkCalls, "ok")
    /\ runPc' = "report"
    /\ UNCHANGED <<dataset, nextQ, testResults, stdout, exc, runResult>>
    /\ UNCHANGED taskVars

\* print("Evaluation completed!"); print(f"Results: ..."); print("View
\* results ..."); return results
ReturnResults ==
    /\ runPc = "report"
    /\ stdout' = stdout \o <<"completed", "results", "view">>
    /\ runResult' = Return(testResults)
    /\ runPc' = "returned"
    /\ UNCHANGED <<dataset, nextQ, sdkCalls, testResults, exc>>

\* print("Evaluation completed successfully"), the last statement of try
PrintSuccess ==
    /\ runPc = "returned"
    /\ stdout' = Append(stdout, "success")
    /\ runPc' = "exit_ok"
    /\ UNCHANGED <<dataset, nextQ, sdkCalls, testResults, exc, runResult>>

HandleException_mut ==
    /\ runPc = "except"
    /\ stdout' = Append(stdout, "failed")
    /\ exc' = ""
    /\ runPc' = "exit_ok"
    /\ UNCHANGED <<dataset, nextQ, sdkCalls, testResults, runResult>>

\* except Exception as e: print(f"Evaluation failed: {e}"); raise
HandleException ==
    /\ runPc = "except"
    /\ stdout' = Append(stdout, "failed")
    /\ runPc' = "exit_raised"
    /\ UNCHANGED <<dataset, nextQ, sdkCalls, testResults, exc, runResult>>

NextRun ==
    \/ StartRun /\ UNCHANGED <<metricVars, engineVars, taskVars, demoVars>>
    \/ CreateDataset /\ UNCHANGED <<metricVars, engineVars, taskVars, demoVars>>
    \/ InsertItem /\ UNCHANGED <<metricVars, engineVars, taskVars, demoVars>>
    \/ EvaluateInvoke /\ UNCHANGED <<metricVars, engineVars, taskVars, demoVars>>
    \/ EvaluateNextItem /\ UNCHANGED <<metricVars, engineVars, demoVars>>
    \/ ReadQuestion /\ UNCHANGED <<metricVars, engineVars, runVars, demoVars>>
    \/ Post /\ UNCHANGED <<metricVars, engineVars, runVars, demoVars>>
    \/ RaiseForStatus /\ UNCHANGED <<metricVars, engineVars, runVars, demoVars>>
    \/ ReturnContent /\ UNCHANGED <<metricVars, engineVars, runVars, demoVars>>
    \/ ReturnRecord /\ UNCHANGED <<metricVars, engineVars, runVars, demoVars>>
    \/ EvaluateTaskDone /\ UNCHANGED <<metricVars, engineVars, demoVars>>
    \/ EvaluateTaskRaised /\ UNCHANGED <<metricVars, engineVars, demoVars>>
    \/ EvaluateReturn /\ UNCHANGED <<metricVars, engineVars, demoVars>>
    \/ ReturnResults /\ UNCHANGED <<metricVars, engineVars, taskVars, demoVars>>
    \/ PrintSuccess /\ UNCHANGED <<metricVars, engineVars, taskVars, demoVars>>
    \/ HandleException /\ UNCHANGED <<metricVars, engineVars, taskVars, demoVars>>

SpecRun == InitRun /\ [][NextRun]_vars

(***************************************************************************)
(* The entry point reports success only for a run that returned.           *)
(***************************************************************************)

WasPrinted(out, msg) == \E i \in DOMAIN out : out[i] = msg

\* some step of the run raised
Faulted == \E i \in DOMAIN sdkCalls : sdkCalls[i].outcome = "raised"

\* C11: the success message is printed only after run_daily_evaluation
\* returned its results; once a step of the run has raised (dataset
\* creation, an insert, evaluate or the model call inside it) the success
\* message is never printed, no result is returned, the exception stays
\* pending, and the script ends only in the failed state, with the failure
\* message printed and the same exception re-raised.  A script that ended
\* normally printed the success message and no failure message.
C11_SuccessOnlyAfterNormalReturn ==
    /\ WasPrinted(stdout, "success") =>
          /\ runResult.kind = "record"
          /\ ~Faulted
          /\ ~WasPrinted(stdout, "failed")
    /\ Faulted =>
          /\ ~WasPrinted(stdout, "success")
          /\ runResult.kind # "record"
          /\ exc # ""
          /\ runPc \in {"except", "exit_raised"}
    /\ WasPrinted(stdout, "failed") => Faulted /\ runPc = "exit_raised"
    /\ runPc = "exit_raised" => Faulted /\ WasPrinted(stdout, "failed")
    /\ runPc = "exit_ok" =>
          /\ WasPrinted(stdout, "success")
          /\ exc = ""

\* the model call raised HTTPError on the second item inside evaluate, and
\* the script has ended re-raising it after the failure message
C11_Witness ==
    /\ runPc = "exit_raised"
    /\ exc = "HTTPError"
    /\ Len(testResults) = 1
    /\ sdkCalls[Len(sdkCalls)] = SdkCall("evaluate", <<>>, "raised")
    /\ stdout = <<"starting", "failed">>

(***************************************************************************)
(* The steps of run_daily_evaluation come in one order.                    *)
(***************************************************************************)

InsertCalls == { i \in DOMAIN sdkCalls : sdkCalls[i].op = "insert" }

\* C13: the SDK calls made are a prefix of: create_dataset, one insert for
\* each test question in list order, evaluate.  A call is made only after
\* every earlier call succeeded, so evaluate is invoked only with all
\* test questions in the dataset, and after a failed create_dataset or
\* insert evaluate is never invoked and no result is returned.
C13_FixedStepOrder ==
    /\ Len(sdkCalls) <= Len(TestQuestions) + 2
    /\ \A i \in DOMAIN sdkCalls :
          /\ (i = 1) = (sdkCalls[i].op = "create_dataset")
          /\ (i = Len(TestQuestions) + 2) = (sdkCalls[i].op = "evaluate")
          /\ sdkCalls[i].op = "insert" =>
                sdkCalls[i].arg = <<TestQuestions[i - 1]>>
          /\ i < Len(sdkCalls) => sdkCalls[i].outcome = "ok"
    /\ dataset.items = SubSeq(TestQuestions, 1, Len(dataset.items))
    /\ Len(dataset.items) =
          Cardinality({ i \in InsertCalls : sdkCalls[i].outcome = "ok" })
    /\ (\E i \in DOMAIN sdkCalls : sdkCalls[i].op = "evaluate") =>
          /\ dataset.created
          /\ dataset.items = TestQuestions
    /\ (\E i \in DOMAIN sdkCalls :
            sdkCalls[i].op # "evaluate" /\ sdkCalls[i].outcome = "raised") =>
          /\ \A j \in DOMAIN sdkCalls : sdkCalls[j].op # "evaluate"
          /\ runResult.kind # "record"
          /\ testResults = <<>>

\* evaluate was invoked after the three inserts and the results returned
C13_Witness ==
    /\ runResult.kind = "record"
    /\ Len(runResult.rec) = Len(TestQuestions)
    /\ [i \in DOMAIN sdkCalls |-> sdkCalls[i].op] =
          <<"create_dataset", "insert", "insert", "insert", "evaluate">>

(***************************************************************************)
(* rest_api_demo.py: check_opik_health and main.                           *)
(***************************************************************************)

\* what requests.get gives back: it raises, or a response with a status
HealthStatuses ==
    { 200, 201, 202, 204, 206, 301, 302, 304, 400, 401, 403, 404, 408, 429,
      500, 502, 503, 504 }
HealthErrors == { "Timeout", "ConnectionError", "KeyboardInterrupt", "SystemExit" }
HealthOutcomes ==
    { [kind |-> "response", status |-> s, err |-> ""] : s \in HealthStatuses }
    \cup { [kind |-> "error", status |-> 0, err |-> e] : e \in HealthErrors }

\* the minute datetime.now() shows when the experiment is named
DemoMinutes == { 0, 30, 59 }

\* scores = {...}
DemoScores ==
    [ overall_quality |-> Num(89, 100), relevance |-> Num(92, 100),
      accuracy |-> Num(87, 100), conciseness |-> Num(85, 100),
      user_satisfaction |-> Num(84, 100) ]

ExperimentName(minute) == [prefix |-> "quality-eval-", stamp |-> minute]

\* except: with no exception class catches whatever was raised
BareExceptCatches(e) == TRUE

StatusIsHealthy_mut(status) == status < 400

\* response.status_code == 200
StatusIsHealthy(status) == status = 200

InitDemo ==
    /\ MetricIdle
    /\ EngineIdle
    /\ TaskIdle
    /\ RunIdle
    /\ demoPc = "main"
    /\ health = NoHealth
    /\ healthy = "unset"
    /\ demoNow = 0
    /\ tracked = <<>>
    /\ demoOut = <<>>

\* main: the three lines of the banner
PrintBanner ==
    /\ demoPc = "main"
    /\ demoOut' = Append(demoOut, "banner")
    /\ demoPc' = "checking"
    /\ UNCHANGED <<health, healthy, demoNow, tracked>>

\* main: print("Checking Opik status...")
PrintChecking ==
    /\ demoPc = "checking"
    /\ demoOut' = Append(demoOut, "checking")
    /\ demoPc' = "get"
    /\ UNCHANGED <<health, healthy, demoNow, tracked>>

\* check_opik_health: response = requests.get(f"{OPIK_URL}/health", timeout=5)
HealthGet ==
    /\ demoPc = "get"
    /\ \E h \in HealthOutcomes : health' = h
    /\ demoPc' = "status"
    /\ UNCHANGED <<healthy, demoNow, tracked, demoOut>>

\* check_opik_health: return response.status_code == 200, or the except
\* branch's return False
HealthReturn ==
    /\ demoPc = "status"
    /\ IF health.kind = "response"
       THEN /\ healthy' = IF StatusIsHealthy(health.status) THEN "True" ELSE "False"
            /\ demoPc' = "branch"
       ELSE IF BareExceptCatches(health.err)
            THEN healthy' = "False" /\ demoPc' = "branch"
            ELSE demoPc' = "raised" /\ UNCHANGED healthy
    /\ UNCHANGED <<health, demoNow, tracked, demoOut>>

\* main: if check_opik_health(): print("Opik is running!")
PrintRunning ==
    /\ demoPc = "branch"
    /\ healthy = "True"
    /\ demoOut' = Append(demoOut, "running")
    /\ demoPc' = "name"
    /\ UNCHANGED <<health, healthy, demoNow, tracked>>

\* main: else: print("Opik is not accessible at ...")
PrintNotAccessible ==
    /\ demoPc = "branch"
    /\ healthy # "True"
    /\ demoOut' = Append(demoOut, "not_accessible")
    /\ demoPc' = "start_it"
    /\ UNCHANGED <<health, healthy, demoNow, tracked>>

\* main: print("   Start it with: docker compose up -d"); return
PrintStartItAndReturn ==
    /\ demoPc = "start_it"
    /\ demoOut' = Append(demoOut, "start_it")
    /\ demoPc' = "returned_early"
    /\ UNCHANGED <<health, healthy, demoNow, tracked>>

\* main: experiment_name = f"quality-eval-{datetime.now().strftime(...)}"
NameExperiment ==
    /\ demoPc = "name"
    /\ \E m \in DemoMinutes : demoNow' = m
    /\ demoPc' = "track"
    /\ UNCHANGED <<health, healthy, tracked, demoOut>>

\* main: create_experiment_via_api(experiment_name, scores)
CreateExperimentViaApi ==
    /\ demoPc = "track"
    /\ tracked' = Append(tracked, [experiment_name |-> ExperimentName(demoNow),
                                   scores |-> DemoScores])
    /\ demoPc' = "track_name"
    /\ UNCHANGED <<health, healthy, demoNow, demoOut>>

\* create_experiment_via_api: print(f"Tracking experiment: {experiment_name}")
PrintTracking ==
    /\ demoPc = "track_name"
    /\ demoOut' = Append(demoOut, "tracking")
    /\ demoPc' = "track_scores"
    /\ UNCHANGED <<health, healthy, demoNow, tracked>>

\* create_experiment_via_api: print(f"Scores: ..."); return True
PrintScoresAndReturn ==
    /\ demoPc = "track_scores"
    /\ demoOut' = Append(demoOut, "scores")
    /\ demoPc' = "trends"
    /\ UNCHANGED <<health, healthy, demoNow, tracked>>

\* main: the trend tables and the closing line
PrintTrends ==
    /\ demoPc = "trends"
    /\ demoOut' = Append(demoOut, "trends")
    /\ demoPc' = "done"
    /\ UNCHANGED <<health, healthy, demoNow, tracked>>

NextDemo ==
    \/ PrintBanner /\ UNCHANGED <<metricVars, engineVars, taskVars, runVars>>
    \/ PrintChecking /\ UNCHANGED <<metricVars, engineVars, taskVars, runVars>>
    \/ HealthGet /\ UNCHANGED <<metricVars, engineVars, taskVars, runVars>>
    \/ HealthReturn /\ UNCHANGED <<metricVars, engineVars, taskVars, runVars>>
    \/ PrintRunning /\ UNCHANGED <<metricVars, engineVars, taskVars, runVars>>
    \/ PrintNotAccessible /\ UNCHANGED <<metricVars, engineVars, taskVars, runVars>>
    \/ PrintStartItAndReturn /\ UNCHANGED <<metricVars, engineVars, taskVars, runVars>>
    \/ NameExperiment /\ UNCHANGED <<metricVars, engineVars, taskVars, runVars>>
    \/ CreateExperimentViaApi /\ UNCHANGED <<metricVars, engineVars, taskVars, runVars>>
    \/ PrintTracking /\ UNCHANGED <<metricVars, engineVars, taskVars, runVars>>
    \/ PrintScoresAndReturn /\ UNCHANGED <<metricVars, engineVars, taskVars, runVars>>
    \/ PrintTrends /\ UNCHANGED <<metricVars, engineVars, taskVars, runVars>>

SpecDemo == InitDemo /\ [][NextDemo]_vars

(***************************************************************************)
(* The health check gates the tracking.                                    *)
(***************************************************************************)

\* the health request completed with HTTP status 200
HealthCompletedWith200 == health.kind = "response" /\ health.status = 200

\* C12: check_opik_health never raises; once the request has completed or
\* raised it returns, True exactly when the request completed with status
\* 200 and False for every other status and every exception.  An experiment
\* is passed to create_experiment_via_api only after the check returned
\* True, and at most once; after False main returns early with no
\* experiment tracked and no tracking message printed.
C12_HealthGatesTracking ==
    /\ demoPc # "raised"
    /\ (healthy = "unset") = (demoPc \in {"main", "checking", "get", "status"})
    /\ healthy # "unset" => ((healthy = "True") = HealthCompletedWith200)
    /\ healthy \in {"unset", "True", "False"}
    /\ Len(tracked) <= 1
    /\ tracked # <<>> => healthy = "True"
    /\ (WasPrinted(demoOut, "tracking") \/ WasPrinted(demoOut, "scores")) =>
          tracked # <<>>
    /\ healthy = "False" =>
          /\ tracked = <<>>
          /\ demoPc \in {"branch", "start_it", "returned_early"}
    /\ demoPc = "returned_early" => healthy = "False"
    /\ demoPc = "done" => healthy = "True" /\ Len(tracked) = 1

\* the request timed out, the check returned False and main has returned
\* without tracking anything
C12_Witness ==
    /\ demoPc = "returned_early"
    /\ health.kind = "error"
    /\ health.err = "Timeout"
    /\ healthy = "False"
    /\ tracked = <<>>

====
